---- MODULE Spec2Model ----
(***************************************************************************)
(* State-machine model of the fleet dispatcher of                          *)
(* fleet_planning/src/taxi_central_node.py (classes Duckiebot,             *)
(* CustomerRequest and TaxiCentralNode).                                   *)
(*                                                                         *)
(* One action per callback of TaxiCentralNode.  A callback is one atomic   *)
(* step; an exception raised inside it ends the step where the exception   *)
(* is raised, keeps every assignment made before it, and is recorded in    *)
(* `raised`.  The interpreter is Python 2 (filter() and dict.values()      *)
(* return lists, lines 199, 265 and 345).                                  *)
(*                                                                         *)
(* Two things live outside the source tree and are inputs of the model:    *)
(* the road graph built by graph_creator (line 171), drawn at Init from    *)
(* Graphs, and the object bound to _pub_duckiebot_transportation_status    *)
(* (a rospy.Publisher, line 188) which lines 328 and 364 call as if it     *)
(* were a function: `pubCallable` says whether that call returns (TRUE)    *)
(* or raises TypeError (FALSE, what a rospy.Publisher does).               *)
(*                                                                         *)
(* Spec is the node as written: _location_update calls                     *)
(* update_location_check_target_reached(node) with one argument for two    *)
(* parameters, which raises TypeError, so under Spec no location is ever   *)
(* stored and no robot ever has a last-seen time.  SpecDirect adds the     *)
(* same callback with the method called as line 86 declares it, and the    *)
(* registration method called directly; every behaviour of Spec is one of  *)
(* SpecDirect.  SpecNoEviction is SpecDirect restricted to runs in which   *)
(* the timer never unregisters a robot.                                    *)
(***************************************************************************)
EXTENDS Integers, Sequences, FiniteSets, TLC

\* ------------------------------------------------------------------ values

\* Python's None for node/name valued fields (lines 39, 40).
None == "None"
\* Python's None for a request reference (line 44); requests are 1..Len(reqs).
NoReq == 0
\* Python's None for a timestamp (lines 41, 149, 150).
NoTime == -1

\* TaxiState (lines 15-18).
TaxiState == {"GOING_TO_CUSTOMER", "WITH_CUSTOMER", "IDLE"}

\* TIME_OUT_CRITERIUM, seconds (line 154).
TIME_OUT_CRITERIUM == 60

\* Parameters of Duckiebot.update_location_check_target_reached after self
\* (line 86), and arguments the callback passes to it (lines 316, 321).
UpdateLocationParams == 2
LocationUpdateArgs == 1

\* ------------------------------------------------------------------ bounds

\* Requests accepted in one run.
MaxRequests == 2
\* The clock (rospy.get_time()) moves in steps of TimeStep up to MaxTime.
TimeStep == 60
MaxTime == 120
\* Nodes taken from the search frontier before the search counts as
\* not terminating; a terminating search over Graphs needs fewer.
BFSFuel == 12
\* Drop-offs recorded in one run.
MaxFulfilled == 1

\* Node names of the road graph, and robot names.  A robot is found by the
\* search on the node that carries the robot's NAME (line 281).
Nodes == {"1", "2", "3"}
Names == {"1", "2"}

\* Request endpoints delivered by the request topic.
RequestPairs == {<<"1", "2">>, <<"3", "3">>}

\* Road graphs: node -> targets of its outgoing edges, in iteration order.
Ring == [n \in Nodes |-> IF n = "1" THEN <<"2">> ELSE IF n = "2" THEN <<"3">> ELSE <<"1">>]
Split == [n \in Nodes |-> IF n = "1" THEN <<>> ELSE IF n = "2" THEN <<"3">> ELSE <<"2">>]
Graphs == {Ring, Split}

VARIABLES
    graph,        \* self._graph (line 171)
    pubCallable,  \* whether calling the status publisher object returns
    now,          \* rospy.get_time()
    bots,         \* self._registered_duckiebots: name -> Duckiebot
    reqs,         \* every CustomerRequest object created, by identity
    pending,      \* self._pending_customer_requests (request ids, NoReq for None)
    fulfilled,    \* self._fulfilled_customer_requests
    raised,       \* outcome of the last callback
    inflight      \* the _location_update call that is between its two halves

vars == <<graph, pubCallable, now, bots, reqs, pending, fulfilled, raised, inflight>>

\* ------------------------------------------------------------- Duckiebot

\* Duckiebot.__init__ (lines 35-44).
NewDuckiebot ==
    [state |-> "IDLE", loc |-> None, nxt |-> None, seen |-> NoTime, req |-> NoReq]

\* CustomerRequest.__init__ (lines 143-150).  time_registered is written
\* here and read nowhere; it is left out of the record.
NewCustomerRequest(start, target, t) ==
    [start |-> start, target |-> target, pickup |-> NoTime, dropoff |-> NoTime]

\* target_location that keeps pointing at the customer's start node.
target_is_start(bot, rq) ==
    IF bot.state = "IDLE" THEN None ELSE rq[bot.req].start

\* Duckiebot.target_location (lines 72-84).
target_location(bot, rq) ==
    IF bot.state = "IDLE" THEN None
    ELSE IF bot.state = "GOING_TO_CUSTOMER" THEN rq[bot.req].start
    ELSE rq[bot.req].target

\* Duckiebot.update_location_check_target_reached (lines 86-117): the robot,
\* the request objects (the time stamps are written into the shared request)
\* and the returned state.
update_location_check_target_reached(bot, rq, reported, nxt, t) ==
    IF reported = None
    THEN [bot |-> bot, reqs |-> rq, ret |-> None]
    ELSE LET b1 == [bot EXCEPT !.loc = reported, !.nxt = nxt, !.seen = t]
         IN IF b1.req # NoReq
            THEN IF reported = rq[b1.req].start
                 THEN [bot |-> [b1 EXCEPT !.state = "WITH_CUSTOMER"],
                       reqs |-> [rq EXCEPT ![b1.req].pickup = t],
                       ret |-> "WITH_CUSTOMER"]
                 ELSE IF reported = rq[b1.req].target
                 THEN [bot |-> [b1 EXCEPT !.state = "IDLE"],
                       reqs |-> [rq EXCEPT ![b1.req].dropoff = t],
                       ret |-> "IDLE"]
                 ELSE [bot |-> b1, reqs |-> rq, ret |-> None]
            ELSE [bot |-> b1, reqs |-> rq, ret |-> None]

\* Duckiebot.has_timed_out (lines 119-123); the caller checks seen # NoTime,
\* the subtraction raising TypeError on None.
has_timed_out(bot, t, criterium) == t - bot.seen > criterium

\* Duckiebot.assign_customer_request (lines 125-131), past its guard.
assign_customer_request(bot, r) ==
    [bot EXCEPT !.req = r, !.state = "GOING_TO_CUSTOMER"]

\* An assignment that never refuses.
assign_overwrites(bot, r) ==
    [bot |-> assign_customer_request(bot, r), raised |-> "none"]

\* Duckiebot.assign_customer_request (lines 125-131) as a call: the robot it
\* leaves and the exception it raises.
call_assign_customer_request(bot, r) ==
    IF bot.req # NoReq
    THEN [bot |-> bot, raised |-> "ValueError"]
    ELSE [bot |-> assign_customer_request(bot, r), raised |-> "none"]

\* pop_customer_request that forgets to clear the request.
pop_keeps_request(bot) ==
    [bot EXCEPT !.state = "IDLE"]

\* Duckiebot.pop_customer_request (lines 133-138): the robot afterwards; the
\* returned request is the robot's req before the call.
pop_customer_request(bot) ==
    [bot EXCEPT !.state = "IDLE", !.req = NoReq]

\* -------------------------------------------------------- TaxiCentralNode

\* The state a callback works on.  `out` collects the messages it publishes
\* and logs, `matched` the <<robot, request>> pairs its dispatch pass selects.
Enter ==
    [bots |-> bots, reqs |-> reqs, pending |-> pending, fulfilled |-> fulfilled,
     raised |-> "none", out |-> <<>>, matched |-> <<>>]

Raise(s, exc) == [s EXCEPT !.raised = exc]
Emit(s, msg) == [s EXCEPT !.out = Append(@, msg)]

\* A function without one key: del d[k] (line 223).
Without(f, k) == [n \in (DOMAIN f) \ {k} |-> f[n]]

\* _idle_duckiebots without its filter.
AllDuckiebots(bs) == DOMAIN bs

\* TaxiCentralNode._idle_duckiebots (lines 195-199): the names of the IDLE robots.
IdleDuckiebots(bs) == {n \in DOMAIN bs : bs[n].state = "IDLE"}

\* _create_and_register_duckiebot without its membership test.
register_overwrites(s, name) ==
    [s EXCEPT !.bots = [n \in (DOMAIN s.bots) \cup {name} |->
                           IF n = name THEN NewDuckiebot ELSE s.bots[n]]]

\* TaxiCentralNode._create_and_register_duckiebot (lines 201-212).
create_and_register_duckiebot(s, name) ==
    IF name \notin DOMAIN s.bots
    THEN [s EXCEPT !.bots = [n \in (DOMAIN s.bots) \cup {name} |->
                                IF n = name THEN NewDuckiebot ELSE s.bots[n]]]
    ELSE Emit(s, <<"warn", "duplicate registration", name>>)

\* _unregister_duckiebot putting the request at the back of the queue.
unregister_appends(s, name) ==
    LET request == s.bots[name].req
        s1 == [s EXCEPT !.bots[name] = pop_customer_request(@),
                        !.pending = @ \o <<request>>]
    IN Emit([s1 EXCEPT !.bots = Without(@, name)], <<"warn", "unregistered", name>>)

\* TaxiCentralNode._unregister_duckiebot (lines 214-226).  `request` (line
\* 218) is the bound method, never None, so line 220 always runs and
\* prepends whatever pop_customer_request() returns, None included.
unregister_duckiebot(s, name) ==
    LET request == s.bots[name].req
        s1 == [s EXCEPT !.bots[name] = pop_customer_request(@),
                        !.pending = <<request>> \o @]
    IN Emit([s1 EXCEPT !.bots = Without(@, name)], <<"warn", "unregistered", name>>)

\* TaxiCentralNode._publish_duckiebot_mission (lines 350-357): the state in
\* the message is hard-coded.
publish_duckiebot_mission(s, name) ==
    Emit(s, <<"command", name, target_location(s.bots[name], s.reqs), "GOING_TO_CUSTOMER">>)

\* TaxiCentralNode._publish_duckiebot_transportation_status (lines 359-364):
\* the payload handed to the publisher object is None.
publish_duckiebot_transportation_status(s, name, callable) ==
    IF callable THEN Emit(s, <<"status", None, None>>) ELSE Raise(s, "TypeError")

\* The search of lines 272-289: nodes_to_visit is `frontier`; an idle robot
\* is on the current node when its name is the node's name (line 281).
\* No node is marked visited.
RECURSIVE BFS(_, _, _, _)
BFS(frontier, idle, g, fuel) ==
    IF frontier = <<>> THEN None
    ELSE IF fuel = 0 THEN "Nonterminating"
    ELSE LET current_node == Head(frontier)
         IN IF current_node \in idle
            THEN current_node
            ELSE BFS(Tail(frontier) \o g[current_node], idle, g, fuel - 1)

\* The pending requests taken last first.
RequestsReversed(p) == [i \in 1..Len(p) |-> p[Len(p) + 1 - i]]

\* The order in which the pass takes the pending requests (line 263).
RequestsInOrder(p) == p

\* TaxiCentralNode._fleet_planning_closest_duckiebot (lines 255-297), from the
\* i-th request of the iteration on.  Nothing is removed from the queue.
RECURSIVE DispatchFrom(_, _, _, _, _)
DispatchFrom(s, todo, i, g, callable) ==
    IF i > Len(todo) THEN s
    ELSE LET idle == IdleDuckiebots(s.bots)
             r == todo[i]
         IN IF idle = {}
            THEN Emit(s, <<"info", "no duckiebot available", None>>)
            ELSE IF r = NoReq
            THEN Raise(s, "AttributeError")
            ELSE LET db == BFS(<<s.reqs[r].start>>, idle, g, BFSFuel)
                 IN IF db = "Nonterminating"
                    THEN Raise(s, "Nonterminating")
                    ELSE IF db = None
                    THEN Raise(Emit(s, <<"warn", "idle duckiebots not found", None>>),
                               "AttributeError")
                    ELSE LET s1 == [s EXCEPT !.matched = Append(@, <<db, r>>)]
                         IN IF s1.bots[db].req # NoReq
                            THEN Raise(s1, "ValueError")
                            ELSE LET s2 == [s1 EXCEPT !.bots[db] = assign_customer_request(@, r)]
                                     s3 == publish_duckiebot_mission(s2, db)
                                     s4 == publish_duckiebot_transportation_status(s3, db, callable)
                                 IN IF s4.raised # "none" THEN s4
                                    ELSE DispatchFrom(s4, todo, i + 1, g, callable)

\* TaxiCentralNode._handle_customer_requests (lines 241-253), strategy
\* CLOSEST_DUCKIEBOT (line 155).
handle_customer_requests(s, g, callable) ==
    DispatchFrom(s, RequestsInOrder(s.pending), 1, g, callable)

\* TaxiCentralNode._register_customer_request (lines 229-239).
register_customer_request(s, start, target, t, g, callable) ==
    LET id == Len(s.reqs) + 1
        s1 == [s EXCEPT !.reqs = Append(@, NewCustomerRequest(start, target, t)),
                        !.pending = Append(@, id)]
    IN handle_customer_requests(s1, g, callable)

\* Lines 323-337 of _location_update: what the callback does with the state
\* update_location_check_target_reached returned.
location_update_tail(s, name, ret, g, callable) ==
    IF ret = "IDLE"
    THEN LET request == s.bots[name].req
             s1 == [s EXCEPT !.bots[name] = pop_customer_request(@),
                             !.fulfilled = Append(@, request)]
             s2 == handle_customer_requests(s1, g, callable)
         IN IF s2.raised # "none" THEN s2
            ELSE IF callable
            THEN Emit(s2, <<"status", name, s2.bots[name].state>>)
            ELSE Raise(s2, "TypeError")
    ELSE IF ret = "WITH_CUSTOMER"
    THEN publish_duckiebot_transportation_status(
             publish_duckiebot_mission(s, name), name, callable)
    ELSE s

\* The call duckiebot.update_location_check_target_reached(*args) of lines
\* 316 and 321: TypeError unless args fills the method's parameters.
call_update_location(s, name, args, t) ==
    IF Len(args) # UpdateLocationParams
    THEN [s |-> Raise(s, "TypeError"), ret |-> None]
    ELSE LET u == update_location_check_target_reached(
                      s.bots[name], s.reqs, args[1], args[2], t)
         IN [s |-> [s EXCEPT !.bots[name] = u.bot, !.reqs = u.reqs], ret |-> u.ret]

\* TaxiCentralNode._location_update (lines 299-337) for a message naming
\* robot `name`; args are the arguments given to
\* update_location_check_target_reached.
location_update(s, name, args, t, g, callable) ==
    IF name \notin DOMAIN s.bots
    THEN LET s1 == create_and_register_duckiebot(s, name)
             c == call_update_location(s1, name, args, t)
         IN IF c.s.raised # "none" THEN c.s
            ELSE LET s2 == handle_customer_requests(c.s, g, callable)
                 IN IF s2.raised # "none" THEN s2
                    ELSE location_update_tail(s2, name, c.ret, g, callable)
    ELSE LET c == call_update_location(s, name, args, t)
         IN IF c.s.raised # "none" THEN c.s
            ELSE location_update_tail(c.s, name, c.ret, g, callable)

\* TaxiCentralNode._check_time_out (lines 341-348) over the robots in the
\* order `order` of the list dict.values() returned.
RECURSIVE check_time_out(_, _, _, _)
check_time_out(s, order, i, t) ==
    IF i > Len(order) THEN s
    ELSE LET name == order[i]
         IN IF s.bots[name].seen = NoTime
            THEN Raise(s, "TypeError")
            ELSE IF has_timed_out(s.bots[name], t, TIME_OUT_CRITERIUM)
            THEN check_time_out(
                     unregister_duckiebot(Emit(s, <<"warn", "timed out", name>>), name),
                     order, i + 1, t)
            ELSE check_time_out(s, order, i + 1, t)

\* The orders in which a dict of the given keys can list its values.
Orders(S) ==
    {o \in [1..Cardinality(S) -> S] : \A i, j \in 1..Cardinality(S) : i # j => o[i] # o[j]}

\* --------------------------------------------------------------- actions

\* No _location_update call is between its two halves.
NoCall == [name |-> None, ret |-> None, fresh |-> FALSE]

\* What a callback leaves behind.
Leave(s) ==
    /\ Len(s.fulfilled) <= MaxFulfilled
    /\ bots' = s.bots
    /\ reqs' = s.reqs
    /\ pending' = s.pending
    /\ fulfilled' = s.fulfilled
    /\ raised' = s.raised

Init ==
    /\ graph \in Graphs
    /\ pubCallable \in BOOLEAN
    /\ now = 0
    /\ bots = <<>>
    /\ reqs = <<>>
    /\ pending = <<>>
    /\ fulfilled = <<>>
    /\ raised = "none"
    /\ inflight = NoCall

\* ~customer_requests callback (line 183).
RegisterCustomerRequest ==
    \E p \in RequestPairs :
        /\ Len(reqs) < MaxRequests
        /\ Leave(register_customer_request(Enter, p[1], p[2], now, graph, pubCallable))
        /\ UNCHANGED <<graph, pubCallable, now, inflight>>

\* /taxi/location callback (lines 184-185) as the source calls the robot.
LocationUpdate ==
    \E name \in Names, node \in Nodes :
        /\ Leave(location_update(Enter, name, SubSeq(<<node, None>>, 1, LocationUpdateArgs),
                                 now, graph, pubCallable))
        /\ UNCHANGED <<graph, pubCallable, now, inflight>>

\* The timer callback (line 190).
CheckTimeOut ==
    \E order \in Orders(DOMAIN bots) :
        /\ Leave(check_time_out(Enter, order, 1, now))
        /\ UNCHANGED <<graph, pubCallable, now, inflight>>

\* Time passes.
Advance ==
    /\ now + TimeStep <= MaxTime
    /\ now' = now + TimeStep
    /\ UNCHANGED <<graph, pubCallable, bots, reqs, pending, fulfilled, raised, inflight>>

Next ==
    \/ RegisterCustomerRequest
    \/ LocationUpdate
    \/ CheckTimeOut
    \/ Advance

Spec == Init /\ [][Next]_vars

\* The callback with the robot method given both of its parameters
\* (reported_location, next_location), as line 86 declares them.
ReportLocation ==
    \E name \in Names, node \in Nodes \cup {None}, nxt \in {None} :
        /\ Leave(location_update(Enter, name, <<node, nxt>>, now, graph, pubCallable))
        /\ UNCHANGED <<graph, pubCallable, now, inflight>>

\* _create_and_register_duckiebot called for any name.
CreateAndRegisterDuckiebot ==
    \E name \in Names :
        /\ Leave(create_and_register_duckiebot(Enter, name))
        /\ UNCHANGED <<graph, pubCallable, now, inflight>>

NextDirect ==
    \/ Next
    \/ ReportLocation
    \/ CreateAndRegisterDuckiebot

SpecDirect == Init /\ [][NextDirect]_vars

\* The timer callback when no robot has timed out.
CheckTimeOutNoEviction ==
    /\ CheckTimeOut
    /\ DOMAIN bots' = DOMAIN bots

\* Runs without timeout evictions.
NextNoEviction ==
    \/ RegisterCustomerRequest
    \/ LocationUpdate
    \/ ReportLocation
    \/ CheckTimeOutNoEviction
    \/ Advance

SpecNoEviction == Init /\ [][NextNoEviction]_vars

\* assign_customer_request called on any registered robot with any request.
AssignCustomerRequest ==
    \E n \in DOMAIN bots, r \in 1..Len(reqs) :
        LET c == call_assign_customer_request(bots[n], r)
        IN /\ Leave([Enter EXCEPT !.bots[n] = c.bot, !.raised = c.raised])
           /\ UNCHANGED <<graph, pubCallable, now, inflight>>

NextAssign ==
    \/ Next
    \/ AssignCustomerRequest

SpecAssign == Init /\ [][NextAssign]_vars

\* Lines 311-321 of _location_update, up to the return of
\* update_location_check_target_reached: the state, the returned taxi state
\* and whether the robot was registered by this call.
location_update_head(s, name, args, t) ==
    IF name \notin DOMAIN s.bots
    THEN LET c == call_update_location(create_and_register_duckiebot(s, name), name, args, t)
         IN [s |-> c.s, ret |-> c.ret, fresh |-> TRUE]
    ELSE LET c == call_update_location(s, name, args, t)
         IN [s |-> c.s, ret |-> c.ret, fresh |-> FALSE]

\* Line 317 (for a robot registered by this call) and lines 323-337 of
\* _location_update.
location_update_rest(s, name, ret, fresh, g, callable) ==
    IF fresh
    THEN LET s2 == handle_customer_requests(s, g, callable)
         IN IF s2.raised # "none" THEN s2
            ELSE location_update_tail(s2, name, ret, g, callable)
    ELSE location_update_tail(s, name, ret, g, callable)

\* The /taxi/location thread runs _location_update up to the return of
\* update_location_check_target_reached.  The subscriptions and the timer of
\* lines 182-190 call back from threads of their own and the node takes no
\* lock, so the other callbacks can run before the call goes on.
LocationUpdateBegin ==
    \E name \in Names, node \in Nodes :
        LET h == location_update_head(Enter, name, <<node, None>>, now)
        IN /\ inflight = NoCall
           /\ Leave(h.s)
           /\ inflight' = IF h.s.raised = "none"
                           THEN [name |-> name, ret |-> h.ret, fresh |-> h.fresh]
                           ELSE NoCall
           /\ UNCHANGED <<graph, pubCallable, now>>

\* The /taxi/location thread runs the rest of the call.
LocationUpdateEnd ==
    /\ inflight # NoCall
    /\ Leave(location_update_rest(Enter, inflight.name, inflight.ret, inflight.fresh,
                                  graph, pubCallable))
    /\ inflight' = NoCall
    /\ UNCHANGED <<graph, pubCallable, now>>

\* The request thread and the location thread between two readings of the
\* clock, before the timer fires.
NextThreads ==
    \/ RegisterCustomerRequest
    \/ LocationUpdateBegin
    \/ LocationUpdateEnd

SpecThreads == Init /\ [][NextThreads]_vars

\* ---------------------------------------------------------------- claims

\* The robots holding request r as their active request.
Holders(bs, r) == {n \in DOMAIN bs : bs[n].req = r}

\* How often x occurs in a sequence, and where it occurs first.
Count(seq, x) == Cardinality({i \in DOMAIN seq : seq[i] = x})
FirstIndex(seq, x) == CHOOSE i \in DOMAIN seq : seq[i] = x /\ \A j \in 1..(i - 1) : seq[j] # x

\* Request r waits: it is queued, no robot holds it, it is not fulfilled.
WaitingIn(s, r) ==
    /\ Count(s.pending, r) > 0
    /\ Holders(s.bots, r) = {}
    /\ Count(s.fulfilled, r) = 0

\* C1: every request is the active request of at most one registered robot.
C1_AtMostOneRobotPerRequest ==
    \A r \in 1..Len(reqs) : Cardinality(Holders(bots, r)) <= 1

\* C2: at the end of every callback every accepted request is in exactly one
\* place: the pending queue, one robot, or the fulfilled collection.
C2_ExactlyOnePlace ==
    \A r \in 1..Len(reqs) :
        Count(pending, r) + Cardinality(Holders(bots, r)) + Count(fulfilled, r) = 1

\* C3: at the end of every callback a registered robot is IDLE exactly when
\* it has no active request.
C3_IdleIffNoRequest ==
    \A n \in DOMAIN bots : (bots[n].state = "IDLE") <=> (bots[n].req = NoReq)

\* C3 witness: after a drop-off one robot is idle again while another robot
\* carries a customer.
C3_Witness ==
    /\ fulfilled # <<>>
    /\ \E n \in DOMAIN bots : bots[n].state = "IDLE" /\ bots[n].seen # NoTime
    /\ \E n \in DOMAIN bots : bots[n].state = "WITH_CUSTOMER" /\ bots[n].req # NoReq

\* C4: every fulfilled request has pickedUpAt and droppedOffAt set, the pickup
\* not after the drop-off, and is the active request of no robot.
C4_FulfilledComplete ==
    \A i \in DOMAIN fulfilled :
        LET r == fulfilled[i]
        IN /\ reqs[r].pickup # NoTime
           /\ reqs[r].dropoff # NoTime
           /\ reqs[r].pickup <= reqs[r].dropoff
           /\ Holders(bots, r) = {}

\* C5: a dispatch pass terminates, on a graph with a cycle reachable from the
\* request's start node too.
C5_DispatchTerminates == raised # "Nonterminating"

\* The callbacks that run a dispatch pass, started in the current state:
\* what each leaves behind.
DispatchRuns ==
    {register_customer_request(Enter, p[1], p[2], now, graph, pubCallable) :
        p \in RequestPairs}
    \cup
    {location_update(Enter, nn[1], <<nn[2], None>>, now, graph, pubCallable) :
        nn \in Names \X (Nodes \cup {None})}

\* The timer callback started in the current state, for every order of the
\* robot list.
TickRuns == {check_time_out(Enter, o, 1, now) : o \in Orders(DOMAIN bots)}

\* C6: within one dispatch pass no robot is matched to two requests.
C6_NoRobotMatchedTwice ==
    \A s \in DispatchRuns :
        \A i, j \in DOMAIN s.matched : i # j => s.matched[i][1] # s.matched[j][1]

\* C6 witness: a dispatch pass that matches two requests.
C6_Witness == \E s \in DispatchRuns : Len(s.matched) >= 2

\* C7: without evictions, a request is never matched in a pass that leaves a
\* request enqueued before it waiting.
C7_Fifo ==
    \A s \in DispatchRuns :
        \A k \in DOMAIN s.matched :
            \A A \in 1..(s.matched[k][2] - 1) : ~WaitingIn(s, A)

\* C7 witness: a pass matches the second request after the first got a robot.
C7_Witness ==
    \E s \in DispatchRuns :
        /\ \E k \in DOMAIN s.matched : s.matched[k][2] = 2
        /\ Holders(s.bots, 1) # {}
        /\ Holders(s.bots, 2) # {}

\* C8: the request of an evicted robot is put in front of everything that was
\* in the pending queue, and a pass never matches a request while one that
\* lies before it in the queue is left waiting.
C8_Priority ==
    /\ \A s \in TickRuns :
           LET added == Len(s.pending) - Len(pending)
           IN /\ SubSeq(s.pending, added + 1, Len(s.pending)) = pending
              /\ \A n \in (DOMAIN bots) \ (DOMAIN s.bots) :
                     bots[n].req # NoReq =>
                         \E i \in 1..added : s.pending[i] = bots[n].req
    /\ \A s \in DispatchRuns :
           \A k \in DOMAIN s.matched :
               \A A \in 1..Len(s.reqs) :
                   (/\ A # s.matched[k][2]
                    /\ Count(s.pending, A) > 0
                    /\ FirstIndex(s.pending, A) < FirstIndex(s.pending, s.matched[k][2]))
                   => ~WaitingIn(s, A)

\* C8 witness: a recovered request, requeued at the front, has a robot again
\* while another request is still waiting behind it.
C8_Witness ==
    \E A \in 1..Len(reqs) :
        /\ Count(pending, A) >= 2
        /\ pending[1] = A
        /\ Holders(bots, A) # {}
        /\ \E C \in 1..Len(reqs) : C # A /\ WaitingIn(Enter, C)

\* C9: registering a name that is registered leaves the registry as it was:
\* the same names, every record unchanged.
C9_ReRegisterUnchanged ==
    \A name \in DOMAIN bots :
        create_and_register_duckiebot(Enter, name).bots = bots

\* C9 witness: a registered robot with a request, a location and a last-seen
\* time, which a fresh record would lose.
C9_Witness ==
    \E name \in DOMAIN bots :
        /\ bots[name].state # "IDLE"
        /\ bots[name].req # NoReq
        /\ bots[name].loc # None
        /\ bots[name].seen # NoTime

\* C10: a tick that evicts the robot holding a request, while an idle robot
\* the search finds from the request's start node stays registered, ends
\* with the request assigned to a robot.
C10_TickRedispatches ==
    [][\A n \in (DOMAIN bots) \ (DOMAIN bots') :
          (/\ (DOMAIN bots) \ (DOMAIN bots') = {n}
           /\ bots[n].req # NoReq
           /\ raised' = "none"
           /\ BFS(<<reqs[bots[n].req].start>>,
                  {m \in DOMAIN bots' : bots[m].state = "IDLE"}, graph, BFSFuel) \in Names)
          => \E m \in DOMAIN bots' : bots'[m].req = bots[n].req]_vars

\* C11: a WITH_CUSTOMER robot that reports its request's target node (the
\* target may equal the start) drops the customer off: the request is added
\* to the fulfilled collection with droppedOffAt set, and the robot is no
\* longer WITH_CUSTOMER (it is IDLE, or on its way to a queued request).
C11_DropOff ==
    [][\A n \in DOMAIN bots :
          (/\ bots[n].state = "WITH_CUSTOMER"
           /\ Leave(location_update(Enter, n, <<reqs[bots[n].req].target, None>>,
                                    now, graph, pubCallable)))
          => /\ Count(fulfilled', bots[n].req) = Count(fulfilled, bots[n].req) + 1
             /\ reqs'[bots[n].req].dropoff = now
             /\ bots'[n].state # "WITH_CUSTOMER"]_vars

\* The commands a callback published: <<robot, target node>>.
Commands(s) == {<<s.out[i][2], s.out[i][3]>> : i \in {j \in DOMAIN s.out : s.out[j][1] = "command"}}

C13_Assignment ==
    \A n \in DOMAIN bots : \A p \in RequestPairs :
        (/\ pending = <<>>
         /\ Len(reqs) < MaxRequests
         /\ IdleDuckiebots(bots) = {n}
         /\ bots[n].loc = p[1])
        => LET s == register_customer_request(Enter, p[1], p[2], now, graph, pubCallable)
               id == Len(reqs) + 1
           IN /\ s.bots[n].req = id
              /\ s.bots[n].state = "GOING_TO_CUSTOMER"
              /\ \E i \in DOMAIN s.out :
                    s.out[i] = <<"command", n, p[1], s.bots[n].state>>


\* The nodes the search of the road graph reaches from node a.
RECURSIVE ReachFrom(_, _)
ReachFrom(S, g) ==
    LET U == S \cup UNION {{g[n][i] : i \in DOMAIN g[n]} : n \in S}
    IN IF U = S THEN S ELSE ReachFrom(U, g)


\* The registrations of a customer request started in the current state.
RegisterRuns ==
    {register_customer_request(Enter, p[1], p[2], now, graph, pubCallable) :
        p \in {q \in RequestPairs : Len(reqs) < MaxRequests}}

\* A pass found no idle robot at one of the requests (line 265).
NoCapacity(s) == \E i \in DOMAIN s.out : s.out[i] = <<"info", "no duckiebot available", None>>

\* C14: a dispatch pass that reaches a pending request while no robot is IDLE
\* stops without error, changes no robot from then on, and leaves that request
\* and all later ones queued in their order; and a pass over two waiting
\* requests with a single idle robot (standing on a node reachable from the
\* first request's start) assigns the first to it and leaves the second waiting.
C14_NoCapacity ==
    /\ \A s \in RegisterRuns :
           NoCapacity(s) =>
               /\ s.raised = "none"
               /\ \A n \in DOMAIN bots :
                      (\A k \in DOMAIN s.matched : s.matched[k][1] # n) => s.bots[n] = bots[n]
               /\ DOMAIN s.bots = DOMAIN bots
               /\ s.pending = Append(pending, Len(reqs) + 1)
    /\ \A s \in RegisterRuns : \A n \in DOMAIN bots :
           (/\ pending = <<1>>
            /\ WaitingIn(Enter, 1)
            /\ IdleDuckiebots(bots) = {n}
            /\ bots[n].loc \in ReachFrom({reqs[1].start}, graph))
           => /\ s.bots[n].req = 1
              /\ s.pending = <<1, 2>>
              /\ Holders(s.bots, 2) = {}


\* A pass exhausted the search without finding an idle robot (line 291).
NotFound(s) == \E i \in DOMAIN s.out : s.out[i] = <<"warn", "idle duckiebots not found", None>>

\* C15: a dispatch pass whose search from a request's start node ends without
\* finding any of the idle robots does not fail: the condition is only
\* reported, the request stays in the pending queue, and no robot changes.
C15_SearchExhausted ==
    \A s \in RegisterRuns :
        NotFound(s) =>
            /\ s.raised = "none"
            /\ s.pending = Append(pending, Len(reqs) + 1)
            /\ DOMAIN s.bots = DOMAIN bots
            /\ \A n \in DOMAIN bots :
                   (\A k \in DOMAIN s.matched : s.matched[k][1] # n) => s.bots[n] = bots[n]


\* C16: assigning a request to a robot that already holds one raises an
\* error and leaves the robot's state and active request as they were.
C16_AssignRefused ==
    \A n \in DOMAIN bots : \A r \in 1..Len(reqs) :
        bots[n].req # NoReq =>
            LET c == call_assign_customer_request(bots[n], r)
            IN /\ c.raised = "ValueError"
               /\ c.bot.state = bots[n].state
               /\ c.bot.req = bots[n].req

\* C16 witness: an assignment was refused on a robot holding request 1 while
\* request 2 exists.
C16_Witness ==
    /\ raised = "ValueError"
    /\ Len(reqs) = 2
    /\ \E n \in DOMAIN bots : bots[n].req = 1


\* The nodes at most k edges away from a node of S.
RECURSIVE Within(_, _, _)
Within(S, g, k) ==
    IF k = 0 THEN S
    ELSE Within(S \cup UNION {{g[n][i] : i \in DOMAIN g[n]} : n \in S}, g, k - 1)

\* The breadth-first distance from node a to node b; Cardinality(Nodes) when
\* b cannot be reached.
Dist(a, b, g) ==
    LET ks == {k \in 0..(Cardinality(Nodes) - 1) : b \in Within({a}, g, k)}
    IN IF ks = {} THEN Cardinality(Nodes)
       ELSE CHOOSE k \in ks : \A j \in ks : k <= j

\* C17: the robot a dispatch pass matches to a request is an idle robot whose
\* last known location is reachable from the request's start node, and no
\* other idle robot is located strictly nearer to that start node (checked
\* for the first match of a pass, when every idle robot has a known location).
C17_ClosestIdle ==
    \A s \in RegisterRuns :
        (/\ Len(s.matched) >= 1
         /\ \A m \in IdleDuckiebots(bots) : bots[m].loc # None)
        => LET db == s.matched[1][1]
               start == s.reqs[s.matched[1][2]].start
           IN /\ db \in IdleDuckiebots(bots)
              /\ bots[db].loc \in ReachFrom({start}, graph)
              /\ \A m \in IdleDuckiebots(bots) :
                     Dist(start, bots[m].loc, graph) >= Dist(start, bots[db].loc, graph)


\* C18: a location report changes a robot's state only from GOING_TO_CUSTOMER
\* to WITH_CUSTOMER (the start node is reported) or from WITH_CUSTOMER to IDLE
\* (the target node is reported); every other report of a robot holding a
\* request leaves its state, its request, the pickup and drop-off times and
\* the fulfilled collection as they were and publishes no command.
C18_OnlyBoundaryReportsChangeState ==
    \A n \in DOMAIN bots : \A v \in Nodes :
        bots[n].req # NoReq =>
            LET r == bots[n].req
                s == location_update(Enter, n, <<v, None>>, now, graph, pubCallable)
                pickup == bots[n].state = "GOING_TO_CUSTOMER" /\ v = reqs[r].start
                dropoff == bots[n].state = "WITH_CUSTOMER" /\ v = reqs[r].target
            IN ~(pickup \/ dropoff) =>
                   /\ s.bots[n].state = bots[n].state
                   /\ s.bots[n].req = r
                   /\ s.reqs = reqs
                   /\ s.fulfilled = fulfilled
                   /\ Commands(s) = {}


\* C19: a timer tick that unregisters one robot requeues exactly its active
\* request: if the robot held a request the pending queue afterwards is that
\* request followed by the previous queue, and if it held none the queue is
\* unchanged; the request of any evicted robot is in the queue afterwards.
C19_RequeueExactlyActive ==
    \A s \in TickRuns :
        LET gone == (DOMAIN bots) \ (DOMAIN s.bots)
        IN /\ \A n \in gone :
                  gone = {n} =>
                      s.pending = IF bots[n].req # NoReq
                                  THEN <<bots[n].req>> \o pending
                                  ELSE pending
           /\ \A n \in gone : bots[n].req # NoReq => Count(s.pending, bots[n].req) > 0


\* C20: a timer tick removes exactly the robots last seen more than the
\* threshold ago: each of them is gone from the registry after the tick, and
\* each robot seen within the threshold is still registered with its state
\* and active request unchanged.
C20_TickRemovesExactlyTimedOut ==
    \A s \in TickRuns : \A n \in DOMAIN bots :
        bots[n].seen # NoTime =>
            IF now - bots[n].seen > TIME_OUT_CRITERIUM
            THEN n \notin DOMAIN s.bots
            ELSE /\ n \in DOMAIN s.bots
                 /\ s.bots[n].state = bots[n].state
                 /\ s.bots[n].req = bots[n].req


\* C21: the callbacks run one at a time: no callback finds the registry
\* partially updated by another (while a location report is being handled
\* every robot is IDLE exactly when it holds no request, and no dispatch pass
\* is refused by an IDLE robot that still holds a request), every robot holds
\* at most one existing request, and every request has at most one owner.
C21_ExclusiveHandlers ==
    /\ inflight # NoCall =>
           \A n \in DOMAIN bots : bots[n].state = "IDLE" <=> bots[n].req = NoReq
    /\ raised # "ValueError"
    /\ \A n \in DOMAIN bots : bots[n].req \in 0..Len(reqs)
    /\ \A r \in 1..Len(reqs) : Cardinality(Holders(bots, r)) <= 1


\* How many status notifications naming robot n and state st a callback
\* published.
StatusCount(s, n, st) == Count(s.out, <<"status", n, st>>)

\* C22: every state transition of a robot produces one status notification
\* with the robot's name and the state entered: GOING_TO_CUSTOMER for each
\* robot a dispatch pass assigns, WITH_CUSTOMER on pickup, and IDLE on
\* drop-off, the IDLE notification coming before anything the following
\* dispatch pass publishes.
C22_StatusOnEveryTransition ==
    /\ \A s \in RegisterRuns :
           \A k \in DOMAIN s.matched :
               s.bots[s.matched[k][1]].req = s.matched[k][2] =>
                   StatusCount(s, s.matched[k][1], "GOING_TO_CUSTOMER") = 1
    /\ \A n \in DOMAIN bots :
           bots[n].state = "GOING_TO_CUSTOMER" =>
               LET s == location_update(Enter, n, <<reqs[bots[n].req].start, None>>,
                                        now, graph, pubCallable)
               IN StatusCount(s, n, "WITH_CUSTOMER") = 1
    /\ \A n \in DOMAIN bots :
           (/\ bots[n].state = "WITH_CUSTOMER"
            /\ reqs[bots[n].req].target # reqs[bots[n].req].start) =>
               LET s == location_update(Enter, n, <<reqs[bots[n].req].target, None>>,
                                        now, graph, pubCallable)
               IN /\ StatusCount(s, n, "IDLE") = 1
                  /\ s.out[1] = <<"status", n, "IDLE">>


\* The positions of the pending queue whose request waits.
WaitingPositions == {i \in DOMAIN pending : pending[i] # NoReq /\ WaitingIn(Enter, pending[i])}

\* C23: at the end of every callback, if a request is waiting in the pending
\* queue then no idle robot is located on a node reachable from the start
\* node of the first waiting request.
C23_WorkConservation ==
    WaitingPositions # {} =>
        LET i == CHOOSE j \in WaitingPositions : \A k \in WaitingPositions : j <= k
            start == reqs[pending[i]].start
        IN \A n \in IdleDuckiebots(bots) : bots[n].loc \notin ReachFrom({start}, graph)

====
